---- MODULE Spec2Model ----
\* ResumeAI multi-agent screener: the worker-pool pipeline of src/App.tsx
\* (startAnalysis / processBatch), the partitioner of src/utils/helpers.ts and
\* the retrying Scorer call of src/services/geminiService.ts.
EXTENDS Integers, Sequences, FiniteSets, TLC

\* ---------------------------------------------------------------- constants
\* Program constants.
AgentCount == 5
MaxRetries == 3
BaseDelay == 2000
Infinity == 1000000
PaceDelay == 1000
MantissaBits == 53

\* Bounds of the model.
MaxDocs == 7
MaxWorkers == 6
BatchFiles == 2
LateFiles == 6
MaxFaultyItems == 1
LateFaults == 2
MaxIds == 2
MaxSelect == 2
MaxRuns == 1
SessionRuns == 2
MaxScans == 1
MaxNames == 1
SessionFiles == 1
SessionIds == 2
QueueFiles == 2
QueueIds == 3
MaxLoads == 1
BatchLoads == 1
BatchScans == 2
MaxLate == 2

AgentIds == 0 .. (AgentCount - 1)

\* The file ids of the model: 0 is the id of the entry of a scan saved in an
\* earlier session, the others are handed out by processFiles.
ItemIds == 0 .. (BatchFiles + LateFiles + SessionIds + QueueIds + MaxIds)

VARIABLES
    user,          \* App state `user`: "none" (null) or "u" (a logged-in profile)
    files,         \* App state `files`: sequence of FileWithId records
    jdText,        \* App state `jdText`: "", "jd", or undefined / null after a history load
    isProcessing,  \* App state `isProcessing`
    agents,        \* App state `agents`: AgentIds -> AgentState record
    batches,       \* the `batches` array captured by the running startAnalysis
    apiKey,        \* the processBatch closures of the last batch hold an API key
                   \* (user?.apiKey || process.env.API_KEY is not empty)
    pc,            \* per agent: the await its processBatch call is suspended at
    idx,           \* per agent: loop variable i of processBatch (0-based)
    retries,       \* per agent: parameter `retries` of the makeRequestWithRetry frame
    delay,         \* per agent: parameter `delay` of the makeRequestWithRetry frame
    runs,          \* number of batches startAnalysis has started so far
    alert,         \* text of the last alert() shown by startAnalysis: "" (none yet),
                   \* "files" (no resume uploaded) or "jd" (no job description)
    scans,         \* server table `scans`: the saved scans, in insertion order
    posts,         \* the payloads of the POST /api/save-scan requests in flight
    loadPending,   \* the scan ids of the fetches of handleLoadScan in flight
    nextId,        \* number of file ids handed out by generateId so far
    attempts,      \* per agent: generateContent calls issued for its current item
    waits,         \* per agent: backoff timers started for its current item
    outcome,       \* per file id: what the last batch got for the item so far, "none" or
                   \* "extract" (extraction rejected), "nokey" (no API key), "quota" (the
                   \* last request met the rate limit), "score" (the last request failed
                   \* otherwise), "malformed" (answer without the skill lists),
                   \* "illyes" / "illno" (answer with ill-typed skill lists and
                   \* matchStatus true / false), "yes" / "no" (an AnalysisResult)
    faults,        \* how many more items of the batch may get an outcome of Abnormal
    mounted,       \* the React root is mounted: no render has thrown so far
    dDocs,         \* partitioner harness: argument `files`
    dCount,        \* partitioner harness: argument `agentCount`
    dChunks,       \* partitioner harness: the `chunks` array
    dDone          \* partitioner harness: distributeFiles has returned

appVars == <<user, files, jdText, isProcessing, agents, batches, apiKey, pc, idx, retries,
            delay, runs, alert, scans, posts, loadPending, nextId, attempts, waits, outcome,
            faults, mounted>>
distVars == <<dDocs, dCount, dChunks, dDone>>
vars == <<user, files, jdText, isProcessing, agents, batches, apiKey, pc, idx, retries, delay,
          runs, alert, scans, posts, loadPending, nextId, attempts, waits, outcome, faults,
          mounted, dDocs, dCount, dChunks, dDone>>


\* ---------------------------------------------- JS numbers (IEEE-754 doubles)
\* A number v >= 0 is held by its exact value: v = int + SUM frac[k] / 2^k,
\* frac a sequence of bits without trailing zeros (<<>> for an integer).
\* Inside the arithmetic a double is [bits, exp]: MantissaBits bits, the
\* first one 1 and of weight 2^exp.
Num(n) == [int |-> n, frac |-> <<>>]

\* The binary digits of n, most significant first.
RECURSIVE IntBits(_)
IntBits(n) == IF n = 0 THEN <<>> ELSE Append(IntBits(n \div 2), n % 2)

\* The natural number written by the first k bits of bs.
RECURSIVE BitsValue(_, _)
BitsValue(bs, k) == IF k = 0 THEN 0 ELSE 2 * BitsValue(bs, k - 1) + bs[k]

\* k zero bits.
Zeros(k) == [j \in 1 .. k |-> 0]

\* bs without its trailing zeros.
StripZeros(bs) ==
    LET ones == { k \in 1 .. Len(bs) : bs[k] = 1 } IN
    IF ones = {} THEN <<>> ELSE SubSeq(bs, 1, CHOOSE k \in ones : \A j \in ones : j <= k)

\* The number of zero bits that follow the binary point of r / d, 0 < r < d.
RECURSIVE LeadZeros(_, _)
LeadZeros(r, d) == IF 2 * r >= d THEN 0 ELSE 1 + LeadZeros(2 * r, d)

\* Long division: the significant bits bs of a quotient with remainder r are
\* extended to len bits; the result also gives the remainder left.
RECURSIVE DivBits(_, _, _, _)
DivBits(bs, r, d, len) ==
    IF Len(bs) >= len THEN [bits |-> bs, rem |-> r]
    ELSE DivBits(Append(bs, IF 2 * r >= d THEN 1 ELSE 0), (2 * r) % d, d, len)

\* bs + 1; a sequence of ones gives one bit more.
Incr(bs) ==
    LET zeros == { k \in 1 .. Len(bs) : bs[k] = 0 } IN
    IF zeros = {} THEN <<1>> \o Zeros(Len(bs))
    ELSE LET z == CHOOSE k \in zeros : \A j \in zeros : j <= k IN
         [k \in 1 .. Len(bs) |-> IF k < z THEN bs[k] ELSE IF k = z THEN 1 ELSE 0]

\* Round to nearest, ties to even: cmp is the sign of (discarded tail - half
\* a unit of the last kept bit).
Rounded(bits, e, cmp) ==
    IF cmp > 0 \/ (cmp = 0 /\ bits[Len(bits)] = 1)
    THEN LET inc == Incr(bits) IN
         IF Len(inc) > Len(bits) THEN [bits |-> SubSeq(inc, 1, Len(bits)), exp |-> e + 1]
         ELSE [bits |-> inc, exp |-> e]
    ELSE [bits |-> bits, exp |-> e]

\* The double n / d for integers n > 0, d > 0.
FloatDiv(n, d) ==
    LET whole == n \div d
        z == IF whole = 0 THEN LeadZeros(n % d, d) ELSE 0
        q == DivBits(IntBits(whole), (n % d) * 2 ^ z, d, MantissaBits)
    IN Rounded(q.bits,
               IF whole = 0 THEN 0 - (z + 1) ELSE Len(IntBits(whole)) - 1,
               IF 2 * q.rem > d THEN 1 ELSE IF 2 * q.rem = d THEN 0 ELSE -1)

\* The carry into position k - 1 of the sum of two bit sequences of equal length.
RECURSIVE Carry(_, _, _)
Carry(a, b, k) ==
    IF k > Len(a) THEN 0 ELSE (a[k] + b[k] + Carry(a, b, k + 1)) \div 2

\* The sum of two bit sequences, without leading zeros.
AddBits(x, y) ==
    LET len == (IF Len(x) > Len(y) THEN Len(x) ELSE Len(y)) + 1
        a == Zeros(len - Len(x)) \o x
        b == Zeros(len - Len(y)) \o y
        sum == [k \in 1 .. len |-> (a[k] + b[k] + Carry(a, b, k + 1)) % 2]
    IN IF sum[1] = 0 THEN SubSeq(sum, 2, len) ELSE sum

\* The exact product of the bit sequence bs and the natural number m.
RECURSIVE TimesBits(_, _)
TimesBits(bs, m) ==
    IF m = 0 THEN <<>>
    ELSE LET hi == TimesBits(bs, m \div 2)
             twice == IF hi = <<>> THEN <<>> ELSE Append(hi, 0)
         IN IF m % 2 = 1 THEN AddBits(bs, twice) ELSE twice

\* The double f * m for a double f and an integer m > 0.
FloatTimes(f, m) ==
    LET p == TimesBits(f.bits, m)
        tail == SubSeq(p, MantissaBits + 1, Len(p))
    IN Rounded(SubSeq(p, 1, MantissaBits),
               f.exp + (Len(p) - MantissaBits),
               IF tail = <<>> \/ tail[1] = 0 THEN -1
               ELSE IF StripZeros(tail) = <<1>> THEN 0 ELSE 1)

\* The value of a double as integer part and fraction bits.
ToNum(f) ==
    IF f.exp >= 0
    THEN [int |-> BitsValue(f.bits, f.exp + 1),
          frac |-> StripZeros(SubSeq(f.bits, f.exp + 2, MantissaBits))]
    ELSE [int |-> 0, frac |-> StripZeros(Zeros(0 - f.exp - 1) \o f.bits)]

\* ((n) / d) * 100 as JS computes it: the quotient rounded to a double, then
\* the product rounded to a double; d > 0.
FloatPercent(n, d) ==
    IF n = 0 THEN Num(0) ELSE ToNum(FloatTimes(FloatDiv(n, d), 100))

\* FloatPercent tabulated for the counts a batch of the model produces.
PercentTable == [d \in 1 .. BatchFiles |-> [n \in 0 .. BatchFiles |-> FloatPercent(n, d)]]

\* ((processedCount + 1) / totalAssigned) * 100; n / 0 with n > 0 is Infinity.
Percent(n, d) ==
    IF d = 0 THEN Num(Infinity)
    ELSE IF d <= BatchFiles /\ n <= BatchFiles THEN PercentTable[d][n]
    ELSE FloatPercent(n, d)

\* ------------------------------------------------------------ data records
\* The JS values undefined and null where the model holds a string.
undefined == "UNDEFINED"
null == "NULL"

\* AnalysisResult values; `result` of a file is <<>> (undefined) or <<r>>.
\* `lists` tells what mandatorySkillsFound and mandatorySkillsMissing are:
\* "arrays", as the type AnalysisResult says, or "scalars" (numbers or
\* strings: JSON.parse(text) as AnalysisResult checks nothing).
ScorerResult(b) == [candidateName |-> "Candidate", matchStatus |-> b, reason |-> "Scored",
                    lists |-> "arrays"]

\* A parsed answer whose skill lists are numbers or strings: .length is
\* defined (or undefined) on them, .slice(...).map and .map are not.
IllTypedResult(b) == [candidateName |-> "Candidate", matchStatus |-> b, reason |-> "Scored",
                      lists |-> "scalars"]

\* The fallback object returned by the catch block of analyzeResume.
SynthResult == [candidateName |-> "Error Processing", matchStatus |-> FALSE,
                reason |-> "System Error during analysis.", lists |-> "arrays"]

\* The error result written by the catch block of processBatch.
CatchResult == [candidateName |-> "Error", matchStatus |-> FALSE, reason |-> "Error: failed",
                lists |-> "arrays"]


\* A FileWithId as built by processFiles. File names are opaque: name n stands
\* for the n-th distinct (name, size) pair; name 0 has no .pdf/.doc/.docx extension.
\* `blob` tells that `file` is a File of the browser (it has arrayBuffer() and
\* FileReader reads it), not a plain object.
NewFile(id, name) ==
    [id |-> id, name |-> name, blob |-> TRUE, status |-> "pending", result |-> <<>>]

\* The initial AgentState of useState / reset.
InitAgent(i) == [id |-> i, status |-> "idle", progress |-> Num(0), totalAssigned |-> 0,
                 processedCount |-> 0, candidatesFound |-> 0, currentFileName |-> ""]

\* ------------------------------------------------------------- partitioner
EmptyChunks(agentCount) == [k \in 0 .. (agentCount - 1) |-> <<>>]

\* files.forEach((file, index) => chunks[index % agentCount].push(file)),
\* from 0-based position `index` on.
RECURSIVE DistFrom(_, _, _, _)
DistFrom(fs, agentCount, index, chunks) ==
    IF index >= Len(fs) THEN chunks
    ELSE DistFrom(fs, agentCount, index + 1,
                  [chunks EXCEPT ![index % agentCount] = Append(@, fs[index + 1])])

\* Mutant: the loop stops one element early.
RECURSIVE DistFromSkipLast(_, _, _, _)
DistFromSkipLast(fs, agentCount, index, chunks) ==
    IF index >= Len(fs) - 1 THEN chunks
    ELSE DistFromSkipLast(fs, agentCount, index + 1,
                  [chunks EXCEPT ![index % agentCount] = Append(@, fs[index + 1])])

distributeFilesSkipLast(fs, agentCount) ==
    DistFromSkipLast(fs, agentCount, 0, EmptyChunks(agentCount))

\* Mutant: the slot is computed from index + 1.
RECURSIVE DistFromShifted(_, _, _, _)
DistFromShifted(fs, agentCount, index, chunks) ==
    IF index >= Len(fs) THEN chunks
    ELSE DistFromShifted(fs, agentCount, index + 1,
                  [chunks EXCEPT ![(index + 1) % agentCount] = Append(@, fs[index + 1])])

distributeFilesShifted(fs, agentCount) ==
    DistFromShifted(fs, agentCount, 0, EmptyChunks(agentCount))

\* Mutant: contiguous blocks of ceil(len / agentCount) files instead of round robin.
RECURSIVE DistFromBlocks(_, _, _, _)
DistFromBlocks(fs, agentCount, index, chunks) ==
    IF index >= Len(fs) THEN chunks
    ELSE DistFromBlocks(fs, agentCount, index + 1,
                  [chunks EXCEPT ![index \div ((Len(fs) + agentCount - 1) \div agentCount)]
                                     = Append(@, fs[index + 1])])

distributeFilesBlocks(fs, agentCount) ==
    DistFromBlocks(fs, agentCount, 0, EmptyChunks(agentCount))

distributeFiles(fs, agentCount) == DistFrom(fs, agentCount, 0, EmptyChunks(agentCount))


\* ----------------------------------------------------- application: Init
\* Nothing has been requested for any file yet.
NoHistory ==
    /\ attempts = [i \in AgentIds |-> 0]
    /\ waits = [i \in AgentIds |-> 0]
    /\ outcome = [d \in ItemIds |-> "none"]
    /\ faults = MaxFaultyItems

AppInit ==
    /\ user = "none"
    /\ files = <<>>
    /\ jdText = ""
    /\ isProcessing = FALSE
    /\ agents = [i \in AgentIds |-> InitAgent(i)]
    /\ batches = EmptyChunks(AgentCount)
    /\ apiKey = FALSE
    /\ pc = [i \in AgentIds |-> "none"]
    /\ idx = [i \in AgentIds |-> 0]
    /\ retries = [i \in AgentIds |-> 0]
    /\ delay = [i \in AgentIds |-> 0]
    /\ runs = 0
    /\ alert = ""
    /\ scans = <<>>
    /\ posts = <<>>
    /\ loadPending = <<>>
    /\ nextId = 0
    /\ NoHistory
    /\ mounted = TRUE


DistIdle ==
    /\ dDocs = <<>>
    /\ dCount = 1
    /\ dChunks = EmptyChunks(1)
    /\ dDone = FALSE

\* ---------------------------------------------- partitioner specification
\* Input sequences: len distinct documents, in ascending or descending id order.
DocSeq(len, rev) ==
    [p \in 1 .. len |-> NewFile(IF rev THEN len + 1 - p ELSE p,
                            IF rev THEN len + 1 - p ELSE p)]

DocSeqs == { DocSeq(len, rev) : len \in 0 .. MaxDocs, rev \in BOOLEAN }

DistInit ==
    /\ AppInit
    /\ dDocs \in DocSeqs
    /\ dCount \in 1 .. MaxWorkers
    /\ dChunks = EmptyChunks(dCount)
    /\ dDone = FALSE

Distribute ==
    /\ ~dDone
    /\ dChunks' = distributeFiles(dDocs, dCount)
    /\ dDone' = TRUE
    /\ UNCHANGED <<dDocs, dCount>>
    /\ UNCHANGED appVars

DistNext == Distribute

DistSpec == DistInit /\ [][DistNext]_vars

\* ------------------------------------------------------- partitioner claims
\* Positions (k, j) of the chunks that hold document d.
Places(chunks, d) ==
    { kj \in { <<k, j>> : k \in DOMAIN chunks, j \in 1 .. MaxDocs } :
        /\ kj[2] <= Len(chunks[kj[1]])
        /\ chunks[kj[1]][kj[2]] = d }

RECURSIVE SumLen(_, _)
SumLen(chunks, ks) ==
    IF ks = {} THEN 0
    ELSE LET k == CHOOSE x \in ks : TRUE
         IN Len(chunks[k]) + SumLen(chunks, ks \ {k})

ChunkSizes(chunks) == { Len(chunks[k]) : k \in DOMAIN chunks }
MaxOf(S) == CHOOSE m \in S : \A x \in S : x <= m
MinOf(S) == CHOOSE m \in S : \A x \in S : m <= x

\* C1: every document of D is placed in exactly one position of exactly one
\* partition and the partition sizes sum to len(D).
C1_ExactlyOnce ==
    dDone =>
        /\ \A p \in 1 .. Len(dDocs) : Cardinality(Places(dChunks, dDocs[p])) = 1
        /\ SumLen(dChunks, DOMAIN dChunks) = Len(dDocs)

C1_Witness ==
    /\ dDone
    /\ Len(dDocs) = 7
    /\ dCount = 3

\* C2: exactly N partitions; the document at input index i is in partition
\* i mod N, at the position its rank among the documents of that partition
\* gives (so input order is kept inside a partition); empty D gives N empty
\* partitions.
C2_RoundRobin ==
    dDone =>
        /\ DOMAIN dChunks = 0 .. (dCount - 1)
        /\ \A i \in 0 .. (Len(dDocs) - 1) :
              /\ Len(dChunks[i % dCount]) >= (i \div dCount) + 1
              /\ dChunks[i % dCount][(i \div dCount) + 1] = dDocs[i + 1]
        /\ \A k \in DOMAIN dChunks : \A a, b \in 1 .. Len(dChunks[k]) :
              a < b =>
                 \E p, q \in 1 .. Len(dDocs) :
                    /\ p < q
                    /\ dDocs[p] = dChunks[k][a]
                    /\ dDocs[q] = dChunks[k][b]
        /\ (dDocs = <<>> => \A k \in 0 .. (dCount - 1) : dChunks[k] = <<>>)

C2_Witness ==
    /\ dDone
    /\ Len(dDocs) = 7
    /\ dCount = 2
    /\ Len(dChunks[0]) = 4

C2_WitnessEmpty ==
    /\ dDone
    /\ dDocs = <<>>
    /\ dCount = 5

\* C3: the largest and the smallest partition differ in size by at most 1;
\* 7 documents over 5 workers give the sizes 2, 2, 1, 1, 1.
C3_Balance ==
    dDone =>
        /\ MaxOf(ChunkSizes(dChunks)) - MinOf(ChunkSizes(dChunks)) <= 1
        /\ (Len(dDocs) = 7 /\ dCount = 5) =>
              [k \in 0 .. 4 |-> Len(dChunks[k])] = [k \in 0 .. 4 |-> IF k < 2 THEN 2 ELSE 1]

C3_Witness ==
    /\ dDone
    /\ Len(dDocs) = 7
    /\ dCount = 5
    /\ Len(dChunks[0]) = 2
    /\ Len(dChunks[4]) = 1

\* ------------------------------------------------- application: helpers
\* Mutant: the id is not compared, every file gets the status.
SetStatusAll(fs, id, st) == [p \in 1 .. Len(fs) |-> [fs[p] EXCEPT !.status = st]]

\* prev.map(f => f.id === id ? { ...f, status } : f)
SetStatus(fs, id, st) ==
    [p \in 1 .. Len(fs) |-> IF fs[p].id = id THEN [fs[p] EXCEPT !.status = st] ELSE fs[p]]

\* prev.map(f => f.id === id ? { ...f, result } : f)
SetResult(fs, id, r) ==
    [p \in 1 .. Len(fs) |-> IF fs[p].id = id THEN [fs[p] EXCEPT !.result = <<r>>] ELSE fs[p]]

\* prev.map(f => f.id === id ? { ...f, status: 'completed', result } : f)
SetCompleted(fs, id, r) ==
    [p \in 1 .. Len(fs) |->
        IF fs[p].id = id THEN [fs[p] EXCEPT !.status = "completed", !.result = <<r>>]
        ELSE fs[p]]

\* The item processBatch(i, batches[i]) is working on.
CurItem(i) == batches[i][idx[i] + 1]

\* Mutant: the join resolves as soon as one worker has returned.
AnyDoneJoin(i) == TRUE

\* Promise.all(agentPromises) resolves once every launched processBatch has
\* returned: agent i is returning now, the others have returned before.
AllOthersDone(i) == \A k \in AgentIds \ {i} : pc[k] \in {"none", "done"}

\* The position (1-based) of the first item of batch at or after position j
\* whose file is a File, Len(batch) + 1 if there is none. For a plain object
\* (an entry rebuilt by handleLoadScan) file.arrayBuffer is no function and
\* FileReader.readAsDataURL throws: the extraction fails with no timer and no
\* request, so the catch block and the next iteration run in the same task.
FirstFile(batch, j) ==
    LET real == { q \in j .. Len(batch) : batch[q].blob } IN
    IF real = {} THEN Len(batch) + 1 ELSE CHOOSE q \in real : \A r \in real : q <= r

\* Lines 41 and 96-117 for the items of batch at the positions from .. to - 1:
\* status error and the error result.
Skipped(fs, batch, from, to) ==
    [p \in 1 .. Len(fs) |->
        IF \E q \in from .. (to - 1) : batch[q].id = fs[p].id
        THEN [fs[p] EXCEPT !.status = "error", !.result = <<CatchResult>>]
        ELSE fs[p]]

\* The files after processBatch has run on batch from position j to its next
\* await (the extraction of a File) or to its end.
ToAwait(fs, batch, j) ==
    LET stop == FirstFile(batch, j) IN
    IF stop <= Len(batch)
    THEN SetStatus(Skipped(fs, batch, j, stop), batch[stop].id, "processing")
    ELSE Skipped(fs, batch, j, stop)

\* The files after every processBatch call of startAnalysis has run to its
\* first await, in index order.
RECURSIVE StartFiles(_, _, _)
StartFiles(fs, bs, k) ==
    IF k >= AgentCount THEN fs
    ELSE StartFiles(ToAwait(fs, bs[k], 1), bs, k + 1)

\* The AgentState of slot k after the batches.map callback of startAnalysis.
StartAgent(a, batch) ==
    IF batch = <<>>
    THEN [a EXCEPT !.status = "completed", !.progress = Num(100)]
    ELSE IF FirstFile(batch, 1) <= Len(batch)
    THEN [a EXCEPT !.status = "working", !.totalAssigned = Len(batch),
                   !.processedCount = 0, !.progress = Num(0),
                   !.currentFileName = batch[FirstFile(batch, 1)].name]
    ELSE [a EXCEPT !.status = "completed", !.totalAssigned = Len(batch),
                   !.processedCount = 0, !.progress = Num(0),
                   !.currentFileName = ""]

\* ------------------------------------------------- application: the render
\* The render of App with user u, job description jd and files fs returns.
\* Logged out, App renders the LoginScreen only. Logged in,
\* JobDescriptionInput reads jdText.length (line 28), which throws for
\* undefined and null, and ResultsDashboard renders a row for every file
\* that is completed with a result whose matchStatus is truthy: the row calls
\* mandatorySkillsFound.slice(0, 3).map and mandatorySkillsMissing.map, which
\* throw when the lists are no arrays. No error boundary catches a throw,
\* React unmounts the root: the state of App is gone and no element is left
\* to act on.
Renders(u, jd, fs) ==
    \/ u = "none"
    \/ /\ jd \notin {undefined, null}
       /\ \A p \in 1 .. Len(fs) :
             ~(/\ fs[p].status = "completed"
               /\ fs[p].result # <<>>
               /\ fs[p].result[1].matchStatus
               /\ fs[p].result[1].lists = "scalars")

\* The render that follows the state updates of a handler.
Rendered == mounted' = Renders(user', jdText', files')

\* The setFiles, setAgents and setIsProcessing calls of one continuation of
\* processBatch (and of startAnalysis after it): React applies them together
\* and renders; once the root is unmounted they change nothing.
Commit(fs, ag, proc) ==
    IF mounted
    THEN /\ files' = fs
         /\ agents' = ag
         /\ isProcessing' = proc
         /\ mounted' = Renders(user, jdText, fs)
    ELSE UNCHANGED <<files, agents, isProcessing, mounted>>

\* ------------------------------------------------- application: the batch
\* The two early returns of startAnalysis are not taken.
CanStart(fs, jd) == fs # <<>> /\ jd # ""

\* startAnalysis up to `await Promise.all`: after the two checks every
\* processBatch call runs to its first await (the extraction of the first
\* item of its batch whose file is a File) or, if its batch holds none, to
\* its end. When no processBatch call is left suspended, Promise.all resolves
\* in the same task and the continuation sets isProcessing back to false.
\* key: user?.apiKey || process.env.API_KEY of the render the click was made
\* in is not empty; the processBatch closures keep it for the whole batch.
\* (The page is mounted, so jdText is a string and jdText.trim() is defined.)
startAnalysis(key) ==
    /\ mounted
    /\ user # "none"
    /\ ~isProcessing
    /\ IF CanStart(files, jdText)
       THEN /\ LET bs == distributeFiles(files, AgentCount)
                   first == [k \in AgentIds |-> FirstFile(bs[k], 1)]
               IN
                /\ batches' = bs
                /\ agents' = [k \in AgentIds |-> StartAgent(agents[k], bs[k])]
                /\ files' = StartFiles(files, bs, 0)
                /\ pc' = [k \in AgentIds |->
                            IF bs[k] = <<>> THEN "none"
                            ELSE IF first[k] <= Len(bs[k]) THEN "extract" ELSE "done"]
                /\ idx' = [k \in AgentIds |-> first[k] - 1]
                /\ isProcessing' = (\E k \in AgentIds : first[k] <= Len(bs[k]))
            /\ apiKey' = key
            /\ retries' = [k \in AgentIds |-> 0]
            /\ delay' = [k \in AgentIds |-> 0]
            /\ runs' = runs + 1
            /\ attempts' = [i \in AgentIds |-> 0]
            /\ waits' = [i \in AgentIds |-> 0]
            /\ outcome' = [d \in ItemIds |-> "none"]
            /\ faults' = MaxFaultyItems
            /\ UNCHANGED alert
       ELSE /\ alert' = IF files = <<>> THEN "files" ELSE "jd"
            /\ UNCHANGED <<files, isProcessing, agents, batches, apiKey, pc, idx, retries,
                           delay, runs, attempts, waits, outcome, faults>>
    /\ UNCHANGED <<user, jdText, scans, posts, loadPending, nextId>>
    /\ Rendered
    /\ UNCHANGED distVars

\* The Deploy button, rendered when !isProcessing with
\* disabled={files.length === 0}, is clicked (for the max-th time at most).
Deploy(key, max) == files # <<>> /\ runs < max /\ startAnalysis(key)

\* The loop of processBatch after item idx[i] has been recorded in fs and ag:
\* the iterations of the following items whose file is no File (each ends in
\* the catch block at once), then either the head of the iteration of the
\* next File (lines 36-41) or the end of the function (line 121) and, for the
\* last worker, the continuation of startAnalysis after Promise.all (line 155).
AfterItem(i, fs, ag) ==
    LET stop == FirstFile(batches[i], idx[i] + 2)
        more == stop <= Len(batches[i])
    IN
    /\ Commit(ToAwait(fs, batches[i], idx[i] + 2),
              IF more
              THEN [ag EXCEPT ![i].currentFileName = batches[i][stop].name]
              ELSE [ag EXCEPT ![i].status = "completed", ![i].currentFileName = ""],
              IF ~more /\ AllOthersDone(i) THEN FALSE ELSE isProcessing)
    /\ pc' = [pc EXCEPT ![i] = IF more THEN "extract" ELSE "done"]
    /\ idx' = [idx EXCEPT ![i] = IF more THEN stop - 1 ELSE Len(batches[i])]

\* Lines 84-95: the result is stored and the agent's counters are updated.
Record(i, r) ==
    AfterItem(i,
        SetCompleted(files, CurItem(i).id, r),
        [agents EXCEPT ![i] =
            [@ EXCEPT !.processedCount = agents[i].processedCount + 1,
                      !.progress = Percent(agents[i].processedCount + 1, agents[i].totalAssigned),
                      !.candidatesFound = IF r.matchStatus THEN agents[i].candidatesFound + 1
                                          ELSE agents[i].candidatesFound]])

\* Mutant: the catch block only sets the status; no error result is stored.
CaughtStatusOnly(i) ==
    AfterItem(i, SetStatus(files, CurItem(i).id, "error"), agents)

\* Lines 96-117: the catch block of processBatch.
Caught(i) ==
    AfterItem(i,
        SetResult(SetStatus(files, CurItem(i).id, "error"), CurItem(i).id, CatchResult),
        agents)

\* The outcomes of an item that are failures or answers that are no
\* AnalysisResult ("quota": the last request met the rate limit, "score": it
\* failed otherwise).
Abnormal == {"extract", "quota", "score", "malformed", "illyes", "illno"}

\* The environment gives the item of worker i the outcome kind of Abnormal:
\* any item of any batch, a bounded number of items of one batch, each of
\* them as often as it likes.
Inject(i, kind) ==
    /\ IF outcome[CurItem(i).id] \in Abnormal
       THEN UNCHANGED faults
       ELSE faults > 0 /\ faults' = faults - 1
    /\ outcome' = [outcome EXCEPT ![CurItem(i).id] = kind]

\* The makeRequestWithRetry frames of agent i are gone.
EndRequest(i) ==
    /\ retries' = [retries EXCEPT ![i] = 0]
    /\ delay' = [delay EXCEPT ![i] = 0]
    /\ attempts' = [attempts EXCEPT ![i] = 0]
    /\ waits' = [waits EXCEPT ![i] = 0]

\* What no step of processBatch changes.
Kept == <<user, jdText, batches, apiKey, runs, alert, scans, posts, loadPending, nextId>>

\* Mutant: the pacing timer is missing, analyzeResume is called at once.
ExtractOkNoPace(i) ==
    /\ pc[i] = "extract"
    /\ pc' = [pc EXCEPT ![i] = "score"]
    /\ retries' = [retries EXCEPT ![i] = MaxRetries]
    /\ delay' = [delay EXCEPT ![i] = BaseDelay]
    /\ attempts' = [attempts EXCEPT ![i] = @ + 1]
    /\ UNCHANGED <<files, isProcessing, agents, mounted, idx, waits, outcome, faults>>
    /\ UNCHANGED Kept
    /\ UNCHANGED distVars

\* The extraction (arrayBuffer + mammoth, or fileToBase64) resolves and the
\* pacing timer is started.
ExtractOk(i) ==
    /\ pc[i] = "extract"
    /\ pc' = [pc EXCEPT ![i] = "pace"]
    /\ UNCHANGED <<files, isProcessing, agents, mounted, idx, retries, delay, attempts, waits,
                   outcome, faults>>
    /\ UNCHANGED Kept
    /\ UNCHANGED distVars

\* The extraction rejects: control goes to the catch block of processBatch.
ExtractFail(i) ==
    /\ pc[i] = "extract"
    /\ Inject(i, "extract")
    /\ Caught(i)
    /\ UNCHANGED <<retries, delay, attempts, waits>>
    /\ UNCHANGED Kept
    /\ UNCHANGED distVars

\* The pacing timer fires and analyzeResume is called; with an API key it
\* issues the first request through makeRequestWithRetry(3, 2000).
PaceDone(i) ==
    /\ pc[i] = "pace"
    /\ apiKey
    /\ pc' = [pc EXCEPT ![i] = "score"]
    /\ retries' = [retries EXCEPT ![i] = MaxRetries]
    /\ delay' = [delay EXCEPT ![i] = BaseDelay]
    /\ attempts' = [attempts EXCEPT ![i] = @ + 1]
    /\ UNCHANGED <<files, isProcessing, agents, mounted, idx, waits, outcome, faults>>
    /\ UNCHANGED Kept
    /\ UNCHANGED distVars

\* The pacing timer fires and analyzeResume finds no API key: it throws
\* before any request and its catch block returns the fallback result.
PaceNoKey(i) ==
    /\ pc[i] = "pace"
    /\ ~apiKey
    /\ Record(i, SynthResult)
    /\ outcome' = [outcome EXCEPT ![CurItem(i).id] = "nokey"]
    /\ UNCHANGED <<retries, delay, attempts, waits, faults>>
    /\ UNCHANGED Kept
    /\ UNCHANGED distVars

\* The entry of `outcome` for an AnalysisResult with matchStatus b.
Answered(b) == IF b THEN "yes" ELSE "no"

\* generateContent resolves with an answer that parses to an AnalysisResult
\* whose matchStatus is b; the verdict is the Scorer's, the program has no
\* say in it.
ScoreOk(i, b) ==
    /\ pc[i] = "score"
    /\ Record(i, ScorerResult(b))
    /\ EndRequest(i)
    /\ outcome' = [outcome EXCEPT ![CurItem(i).id] = Answered(b)]
    /\ UNCHANGED faults
    /\ UNCHANGED Kept
    /\ UNCHANGED distVars

\* The entry of `outcome` for an ill-typed answer with matchStatus b.
IllAnswered(b) == IF b THEN "illyes" ELSE "illno"

\* generateContent resolves with a text that parses to an object whose
\* mandatorySkillsFound and mandatorySkillsMissing are numbers or strings and
\* whose matchStatus is b: the logging of lines 75-82 reads .length of them
\* without a throw, lines 84-95 store the object as the result of a
\* completed item and count it.
ScoreIllTyped(i, b) ==
    /\ pc[i] = "score"
    /\ Inject(i, IllAnswered(b))
    /\ Record(i, IllTypedResult(b))
    /\ EndRequest(i)
    /\ UNCHANGED Kept
    /\ UNCHANGED distVars

\* generateContent resolves with a text that parses to a value without the
\* skill lists ("{}", an object without mandatorySkillsFound, "null"):
\* analyzeResume returns it, the logging of lines 75-82 reads
\* result.mandatorySkillsFound.length and throws inside the try block of
\* processBatch, whose catch block records the item.
ScoreMalformed(i) ==
    /\ pc[i] = "score"
    /\ Inject(i, "malformed")
    /\ Caught(i)
    /\ EndRequest(i)
    /\ UNCHANGED Kept
    /\ UNCHANGED distVars

\* Mutant: every failure of a request is retried.
ShouldRetryAnyError(r, kind) == r > 0

\* Mutant: the bound is tested with >=.
ShouldRetryOffByOne(r, kind) == r >= 0 /\ kind = "quota"

\* The condition of the catch block of makeRequestWithRetry.
ShouldRetry(r, kind) == r > 0 /\ kind = "quota"

\* The request fails. kind "quota": the error message contains 429 or quota;
\* "other": any other rejection of generateContent; "notext": the call
\* resolved but the text is empty or does not parse (thrown outside
\* makeRequestWithRetry).
ErrorKinds == {"quota", "other", "notext"}

ScoreFail(i, kind) ==
    /\ pc[i] = "score"
    /\ IF kind # "notext" /\ ShouldRetry(retries[i], kind)
       THEN /\ pc' = [pc EXCEPT ![i] = "backoff"]
            /\ waits' = [waits EXCEPT ![i] = @ + 1]
            /\ UNCHANGED <<files, agents, idx, isProcessing, mounted, retries, delay, attempts>>
       ELSE /\ Record(i, SynthResult)
            /\ EndRequest(i)
    /\ Inject(i, IF kind = "quota" THEN "quota" ELSE "score")
    /\ UNCHANGED Kept
    /\ UNCHANGED distVars

\* Mutant: the delay grows by the base delay instead of doubling.
BackoffDoneLinear(i) ==
    /\ pc[i] = "backoff"
    /\ pc' = [pc EXCEPT ![i] = "score"]
    /\ retries' = [retries EXCEPT ![i] = retries[i] - 1]
    /\ delay' = [delay EXCEPT ![i] = delay[i] + BaseDelay]
    /\ attempts' = [attempts EXCEPT ![i] = @ + 1]
    /\ UNCHANGED <<files, isProcessing, agents, mounted, idx, waits, outcome, faults>>
    /\ UNCHANGED Kept
    /\ UNCHANGED distVars

\* The backoff timer fires: makeRequestWithRetry(retries - 1, delay * 2).
BackoffDone(i) ==
    /\ pc[i] = "backoff"
    /\ pc' = [pc EXCEPT ![i] = "score"]
    /\ retries' = [retries EXCEPT ![i] = retries[i] - 1]
    /\ delay' = [delay EXCEPT ![i] = delay[i] * 2]
    /\ attempts' = [attempts EXCEPT ![i] = @ + 1]
    /\ UNCHANGED <<files, isProcessing, agents, mounted, idx, waits, outcome, faults>>
    /\ UNCHANGED Kept
    /\ UNCHANGED distVars

\* The duration (ms) of the timer worker i is waiting for, 0 if none: the
\* pacing timer of processBatch or the backoff timer of makeRequestWithRetry.
Timer(i) ==
    IF pc[i] = "pace" THEN PaceDelay
    ELSE IF pc[i] = "backoff" THEN delay[i]
    ELSE 0

\* A step of processBatch(i, batches[i]): one of its awaits returns. Nothing
\* cancels the call: it goes on after a logout and after the root has been
\* unmounted.
WorkerStep(i) ==
    \/ ExtractOk(i)
    \/ ExtractFail(i)
    \/ PaceDone(i)
    \/ PaceNoKey(i)
    \/ \E b \in BOOLEAN : ScoreOk(i, b)
    \/ \E b \in BOOLEAN : ScoreIllTyped(i, b)
    \/ ScoreMalformed(i)
    \/ \E kind \in ErrorKinds : ScoreFail(i, kind)
    \/ BackoffDone(i)

\* --------------------------------------------- application: user actions
\* LoginScreen calls onLogin (setUser) after a successful login or registration.
Login ==
    /\ mounted
    /\ user = "none"
    /\ user' = "u"
    /\ UNCHANGED <<files, jdText, isProcessing, agents, batches, apiKey, pc, idx, retries,
                   delay, runs, alert, scans, posts, loadPending, nextId, attempts, waits,
                   outcome, faults>>
    /\ Rendered
    /\ UNCHANGED distVars

\* Mutant: the logout also clears the processing flag.
handleLogoutStopsProcessing ==
    /\ mounted
    /\ user # "none"
    /\ user' = "none"
    /\ files' = <<>>
    /\ jdText' = ""
    /\ isProcessing' = FALSE
    /\ UNCHANGED <<agents, batches, apiKey, pc, idx, retries, delay, runs, alert, scans,
                   posts, loadPending, nextId, attempts, waits, outcome, faults>>
    /\ Rendered
    /\ UNCHANGED distVars

\* The logout button of the header (always enabled).
handleLogout ==
    /\ mounted
    /\ user # "none"
    /\ user' = "none"
    /\ files' = <<>>
    /\ jdText' = ""
    /\ UNCHANGED <<isProcessing, agents, batches, apiKey, pc, idx, retries, delay, runs,
                   alert, scans, posts, loadPending, nextId, attempts, waits, outcome,
                   faults>>
    /\ Rendered
    /\ UNCHANGED distVars

\* The textarea of JobDescriptionInput (disabled while processing).
setJdText(t) ==
    /\ mounted
    /\ user # "none"
    /\ ~isProcessing
    /\ jdText' = t
    /\ UNCHANGED <<user, files, isProcessing, agents, batches, apiKey, pc, idx, retries,
                   delay, runs, alert, scans, posts, loadPending, nextId, attempts, waits,
                   outcome, faults>>
    /\ Rendered
    /\ UNCHANGED distVars

\* file.name.match(/\.(pdf|doc|docx)$/i)
ValidExt(name) == name # 0

\* The k-th kept entry gets the id base + k.
NumberFiles(names, base) == [k \in 1 .. Len(names) |-> NewFile(base + k, names[k])]

\* uniqueNewFiles: the entries of the selection with a valid extension whose
\* (name, size) is not in the queue.
Unique(sel) ==
    LET IsNew(name) == \A p \in 1 .. Len(files) : files[p].name # name
    IN SelectSeq(SelectSeq(sel, ValidExt), IsNew)

\* The selection fits in the max ids the specification hands out.
IdsLeft(sel, max) == nextId + Len(Unique(sel)) <= max

\* processFiles(fileList) for a selection or a drop of the files `sel`.
processFiles(sel) ==
    /\ mounted
    /\ user # "none"
    /\ ~isProcessing
    /\ files' = files \o NumberFiles(Unique(sel), nextId)
    /\ nextId' = nextId + Len(Unique(sel))
    /\ UNCHANGED <<user, jdText, isProcessing, agents, batches, apiKey, pc, idx, retries,
                   delay, runs, alert, scans, posts, loadPending, attempts, waits, outcome,
                   faults>>
    /\ Rendered
    /\ UNCHANGED distVars

\* The remove button of a queue entry, rendered when
\* item.status === 'pending' && !isProcessing.
removeFile(id) ==
    /\ mounted
    /\ user # "none"
    /\ ~isProcessing
    /\ \E p \in 1 .. Len(files) : files[p].id = id /\ files[p].status = "pending"
    /\ LET Keep(f) == f.id # id IN files' = SelectSeq(files, Keep)
    /\ UNCHANGED <<user, jdText, isProcessing, agents, batches, apiKey, pc, idx, retries,
                   delay, runs, alert, scans, posts, loadPending, nextId, attempts, waits,
                   outcome, faults>>
    /\ Rendered
    /\ UNCHANGED distVars

\* The Clear Queue button, rendered when files.length > 0 && !isProcessing.
clearAll ==
    /\ mounted
    /\ user # "none"
    /\ ~isProcessing
    /\ files # <<>>
    /\ files' = <<>>
    /\ UNCHANGED <<user, jdText, isProcessing, agents, batches, apiKey, pc, idx, retries,
                   delay, runs, alert, scans, posts, loadPending, nextId, attempts, waits,
                   outcome, faults>>
    /\ Rendered
    /\ UNCHANGED distVars

\* Mutant: the Reset All button is not disabled during a run.
resetAlways ==
    /\ mounted
    /\ user # "none"
    /\ files' = <<>>
    /\ jdText' = ""
    /\ agents' = [i \in AgentIds |-> InitAgent(i)]
    /\ UNCHANGED <<user, isProcessing, batches, apiKey, pc, idx, retries, delay, runs, alert,
                   scans, posts, loadPending, nextId, attempts, waits, outcome, faults>>
    /\ Rendered
    /\ UNCHANGED distVars

\* The Reset All button (disabled={isProcessing}).
reset ==
    /\ mounted
    /\ user # "none"
    /\ ~isProcessing
    /\ files' = <<>>
    /\ jdText' = ""
    /\ agents' = [i \in AgentIds |-> InitAgent(i)]
    /\ UNCHANGED <<user, isProcessing, batches, apiKey, pc, idx, retries, delay, runs, alert,
                   scans, posts, loadPending, nextId, attempts, waits, outcome, faults>>
    /\ Rendered
    /\ UNCHANGED distVars

\* A sequence without its k-th element.
Without(q, k) == SubSeq(q, 1, k - 1) \o SubSeq(q, k + 1, Len(q))

\* The value of column job_description for a payload built with jobDescription
\* jd: JSON.stringify drops an undefined member and keeps null, the column
\* is NULL in both cases.
Stored(jd) == IF jd \in {undefined, null} THEN null ELSE jd

\* Lines 179-185: what the payload keeps of each entry of files.
serializableResults(fs) ==
    [p \in 1 .. Len(fs) |-> [id |-> fs[p].id, fileName |-> fs[p].name,
                              status |-> fs[p].status, result |-> fs[p].result]]

\* What the requests to the server leave alone.
Page == <<user, files, jdText, isProcessing, agents, batches, apiKey, pc, idx, retries, delay,
          runs, alert, nextId, attempts, waits, outcome, faults, mounted>>

\* The Save button (rendered when some file is completed, during a batch
\* too) is clicked and a title is given: the payload is built from the files
\* and the job description of this moment and the POST /api/save-scan is
\* issued (lines 174-198). With the requests in flight the table scans gets
\* at most max rows in the model.
handleSaveToHistory(max) ==
    /\ mounted
    /\ user # "none"
    /\ \E p \in 1 .. Len(files) : files[p].status = "completed"
    /\ Len(scans) + Len(posts) < max
    /\ posts' = Append(posts, [job_description |-> Stored(jdText),
                                results |-> serializableResults(files)])
    /\ UNCHANGED <<scans, loadPending>>
    /\ UNCHANGED Page
    /\ UNCHANGED distVars

\* server.js 73-86: the k-th POST in flight is handled, the row is inserted;
\* the handler of the click then only alerts.
saveScan(k) ==
    /\ k \in 1 .. Len(posts)
    /\ scans' = Append(scans, posts[k])
    /\ posts' = Without(posts, k)
    /\ UNCHANGED loadPending
    /\ UNCHANGED Page
    /\ UNCHANGED distVars

\* The k-th POST in flight fails (the fetch rejects, or the INSERT reports an
\* error and the answer is 500): no row, the handler of the click only alerts.
saveScanFailed(k) ==
    /\ k \in 1 .. Len(posts)
    /\ posts' = Without(posts, k)
    /\ UNCHANGED <<scans, loadPending>>
    /\ UNCHANGED Page
    /\ UNCHANGED distVars

\* A scan is clicked in the History modal: handleLoadScan up to its fetch.
\* The modal stays open until a load has been applied, so a scan can be
\* clicked while other fetches are in flight (at most max in the model).
handleLoadScan(scanId, max) ==
    /\ mounted
    /\ user # "none"
    /\ scanId \in 1 .. Len(scans)
    /\ Len(loadPending) < max
    /\ loadPending' = Append(loadPending, scanId)
    /\ UNCHANGED <<scans, posts>>
    /\ UNCHANGED Page
    /\ UNCHANGED distVars

\* The AgentState written by handleLoadScan.
LoadedAgent(i) == [id |-> i, status |-> "completed", progress |-> Num(100), totalAssigned |-> 0,
                   processedCount |-> 0, candidatesFound |-> 0, currentFileName |-> ""]

\* Lines 218-223: the entries rebuilt from the results of a row; `file` is the
\* plain object { name, size, type }.
reconstructedFiles(results) ==
    [p \in 1 .. Len(results) |->
        [id |-> results[p].id, name |-> results[p].fileName, blob |-> FALSE,
         status |-> results[p].status, result |-> results[p].result]]

\* What the continuations of handleLoadScan leave alone.
Run == <<user, isProcessing, batches, apiKey, pc, idx, retries, delay, runs, alert, scans,
         posts, nextId, attempts, waits, outcome, faults>>

\* The k-th fetch in flight resolves with the row: lines 216-228, then the
\* render with the job description of the row (NULL in the row gives null).
\* Nothing aborts the fetch: after the root has been unmounted the
\* continuation still runs and its state updates change nothing.
handleLoadScanResolved(k) ==
    /\ k \in 1 .. Len(loadPending)
    /\ loadPending' = Without(loadPending, k)
    /\ IF mounted
       THEN /\ jdText' = scans[loadPending[k]].job_description
            /\ files' = reconstructedFiles(scans[loadPending[k]].results)
            /\ agents' = [i \in AgentIds |-> LoadedAgent(i)]
       ELSE UNCHANGED <<jdText, files, agents>>
    /\ UNCHANGED Run
    /\ mounted' = (mounted /\ Renders(user', jdText', files'))
    /\ UNCHANGED distVars

\* The k-th fetch in flight rejects, or its body is no JSON: the catch block
\* only alerts.
handleLoadScanFailed(k) ==
    /\ k \in 1 .. Len(loadPending)
    /\ loadPending' = Without(loadPending, k)
    /\ UNCHANGED <<jdText, files, agents, mounted>>
    /\ UNCHANGED Run
    /\ UNCHANGED distVars

\* The k-th fetch in flight is answered 404 with the body {error: ...}
\* (server.js 101-102: the SELECT reports an error or finds no row). res.ok is
\* not tested: setJdText(data.job_description) stores undefined (line 217),
\* then data.results.map throws and the catch block alerts. With a user
\* logged in the next render throws and the root is unmounted; logged out,
\* the undefined jdText stays until a later load or the login.
handleLoadScanNotFound(k) ==
    /\ k \in 1 .. Len(loadPending)
    /\ loadPending' = Without(loadPending, k)
    /\ jdText' = IF mounted THEN undefined ELSE jdText
    /\ UNCHANGED <<files, agents>>
    /\ UNCHANGED Run
    /\ mounted' = (mounted /\ Renders(user', jdText', files'))
    /\ UNCHANGED distVars

\* ------------------------------------------------ the full specification
Names == 0 .. MaxNames

Selections == UNION { [1 .. n -> Names] : n \in 1 .. MaxSelect }

Init == AppInit /\ DistIdle

Next ==
    \/ Login
    \/ handleLogout
    \/ \E t \in {"", "jd"} : setJdText(t)
    \/ \E sel \in Selections : (IdsLeft(sel, MaxIds) /\ processFiles(sel))
    \/ \E id \in ItemIds : removeFile(id)
    \/ clearAll
    \/ reset
    \/ handleSaveToHistory(MaxScans)
    \/ \E k \in 1 .. MaxScans : saveScan(k)
    \/ \E k \in 1 .. MaxScans : saveScanFailed(k)
    \/ \E scanId \in 1 .. MaxScans : handleLoadScan(scanId, MaxLoads)
    \/ \E k \in 1 .. MaxLoads : handleLoadScanResolved(k)
    \/ \E k \in 1 .. MaxLoads : handleLoadScanFailed(k)
    \/ \E k \in 1 .. MaxLoads : handleLoadScanNotFound(k)
    \/ \E key \in BOOLEAN : Deploy(key, MaxRuns)
    \/ \E i \in AgentIds : WorkerStep(i)

Spec == Init /\ [][Next]_vars

\* ------------------------------------------------- one batch of a session
\* A row of the table scans saved in an earlier session of the user: one
\* completed resume with the result of the Scorer. Its id is none of this
\* session's.
OldScan ==
    [job_description |-> "old",
     results |-> <<[id |-> 0, fileName |-> 1, status |-> "completed",
                    result |-> <<ScorerResult(TRUE)>>]>>]

\* The state after a login, an upload of n distinct files (none for n = 0)
\* and a job description, with the rows `saved` in the table scans.
Uploaded(maxFiles, saved) ==
    /\ \E n \in 0 .. maxFiles :
          /\ files = [p \in 1 .. n |-> NewFile(p, p)]
          /\ nextId = n
    /\ user = "u"
    /\ jdText = "jd"
    /\ isProcessing = FALSE
    /\ agents = [i \in AgentIds |-> InitAgent(i)]
    /\ batches = EmptyChunks(AgentCount)
    /\ apiKey = FALSE
    /\ pc = [i \in AgentIds |-> "none"]
    /\ idx = [i \in AgentIds |-> 0]
    /\ retries = [i \in AgentIds |-> 0]
    /\ delay = [i \in AgentIds |-> 0]
    /\ runs = 0
    /\ alert = ""
    /\ scans = saved
    /\ posts = <<>>
    /\ loadPending = <<>>
    /\ NoHistory
    /\ mounted = TRUE
    /\ DistIdle

\* The files after the worker of batch has recorded the result r for its
\* items from position q on.
RECURSIVE RecordedAll(_, _, _, _)
RecordedAll(fs, batch, q, r) ==
    IF q > Len(batch) THEN fs
    ELSE RecordedAll(SetCompleted(fs, batch[q].id, r), batch, q + 1, r)

\* The files of a batch bs in which the workers of `late` are at their first
\* await and every other worker has recorded r for each of its items.
RECURSIVE LateFilesOf(_, _, _, _, _)
LateFilesOf(fs, bs, late, r, k) ==
    IF k >= AgentCount THEN fs
    ELSE LateFilesOf(IF k \in late THEN fs ELSE RecordedAll(fs, bs[k], 1, r), bs, late, r, k + 1)

\* The AgentState of a worker that has returned from batch without a
\* positive result.
ReturnedAgent(a, batch) ==
    IF batch = <<>> THEN StartAgent(a, batch)
    ELSE [StartAgent(a, batch) EXCEPT !.status = "completed",
                                      !.processedCount = Len(batch),
                                      !.progress = Percent(Len(batch), Len(batch)),
                                      !.currentFileName = ""]

\* The late phase of the first batch of a session: n files were uploaded,
\* Deploy was clicked with or without an API key and every worker outside
\* `late` has returned, each of its items answered with a negative verdict
\* (with a key) or recorded with the fallback result (without one); the
\* workers of `late` have not got past their first await; at most `budget`
\* of the remaining items get an outcome of Abnormal.
Late(n, late, key, budget) ==
    LET fs == [p \in 1 .. n |-> NewFile(p, p)]
        bs == distributeFiles(fs, AgentCount)
        r == IF key THEN ScorerResult(FALSE) ELSE SynthResult
    IN
    /\ \A k \in late : bs[k] # <<>>
    /\ files = LateFilesOf(StartFiles(fs, bs, 0), bs, late, r, 0)
    /\ nextId = n
    /\ user = "u"
    /\ jdText = "jd"
    /\ isProcessing = TRUE
    /\ agents = [k \in AgentIds |->
                    IF k \in late THEN StartAgent(InitAgent(k), bs[k])
                    ELSE ReturnedAgent(InitAgent(k), bs[k])]
    /\ batches = bs
    /\ apiKey = key
    /\ pc = [k \in AgentIds |->
                IF bs[k] = <<>> THEN "none" ELSE IF k \in late THEN "extract" ELSE "done"]
    /\ idx = [k \in AgentIds |-> IF k \in late THEN 0 ELSE Len(bs[k])]
    /\ retries = [k \in AgentIds |-> 0]
    /\ delay = [k \in AgentIds |-> 0]
    /\ runs = 1
    /\ alert = ""
    /\ scans = <<OldScan>>
    /\ posts = <<>>
    /\ loadPending = <<>>
    /\ attempts = [i \in AgentIds |-> 0]
    /\ waits = [i \in AgentIds |-> 0]
    /\ outcome = [d \in ItemIds |->
                     IF \E k \in AgentIds \ late : \E q \in 1 .. Len(bs[k]) : bs[k][q].id = d
                     THEN (IF key THEN "no" ELSE "nokey") ELSE "none"]
    /\ faults = budget
    /\ mounted = TRUE
    /\ DistIdle

\* The sets of workers that are still running in a late phase: some of the
\* workers of the first MaxLate slots.
LateSets == (SUBSET (0 .. (MaxLate - 1))) \ {{}}

\* A batch about to be started with at most BatchFiles files, or the late
\* phase of a batch of LateFiles files in which the workers of a set of
\* LateSets are still running.
BatchInit ==
    \/ Uploaded(BatchFiles, <<OldScan>>)
    \/ \E late \in LateSets : \E key \in BOOLEAN :
          Late(LateFiles, late, key, LateFaults)

\* The first batch and what stays enabled while it runs: the workers, the
\* Sign Out button, the login screen, the Save button and the History modal.
BatchNext ==
    \/ \E key \in BOOLEAN : Deploy(key, 1)
    \/ \E i \in AgentIds : WorkerStep(i)
    \/ handleLogout
    \/ Login
    \/ handleSaveToHistory(BatchScans)
    \/ \E k \in 1 .. BatchScans : saveScan(k)
    \/ \E k \in 1 .. BatchScans : saveScanFailed(k)
    \/ \E scanId \in 1 .. BatchScans : handleLoadScan(scanId, BatchLoads)
    \/ \E k \in 1 .. BatchLoads : handleLoadScanResolved(k)
    \/ \E k \in 1 .. BatchLoads : handleLoadScanFailed(k)
    \/ \E k \in 1 .. BatchLoads : handleLoadScanNotFound(k)

BatchSpec == BatchInit /\ [][BatchNext]_vars

\* ------------------------------------------- session specification
\* Batches interleaved with the logout button, the login screen, the Save
\* button, the History modal and the inputs needed to start again (the
\* upload of one more resume, the job description), the Clear Queue and the
\* Reset All button. The table scans is empty at the start: the scans of the
\* History modal are those saved in the session.
SessionInit == Uploaded(SessionFiles, <<>>)

SessionNext ==
    \/ Login
    \/ handleLogout
    \/ setJdText("jd")
    \/ (IdsLeft(<<nextId + 1>>, SessionIds) /\ processFiles(<<nextId + 1>>))
    \/ clearAll
    \/ reset
    \/ handleSaveToHistory(MaxScans)
    \/ \E k \in 1 .. MaxScans : saveScan(k)
    \/ \E k \in 1 .. MaxScans : saveScanFailed(k)
    \/ \E scanId \in 1 .. MaxScans : handleLoadScan(scanId, BatchLoads)
    \/ \E k \in 1 .. BatchLoads : handleLoadScanResolved(k)
    \/ \E k \in 1 .. BatchLoads : handleLoadScanFailed(k)
    \/ \E k \in 1 .. BatchLoads : handleLoadScanNotFound(k)
    \/ \E key \in BOOLEAN : Deploy(key, SessionRuns)
    \/ \E i \in AgentIds : WorkerStep(i)

SessionSpec == SessionInit /\ [][SessionNext]_vars

\* ------------------------------------------- queue specification
\* A session in which the user only deploys, clears the queue and uploads.
QueueInit == Uploaded(QueueFiles, <<>>)

QueueNext ==
    \/ (IdsLeft(<<nextId + 1>>, QueueIds) /\ processFiles(<<nextId + 1>>))
    \/ clearAll
    \/ \E key \in BOOLEAN : Deploy(key, SessionRuns)
    \/ \E i \in AgentIds : WorkerStep(i)

QueueSpec == QueueInit /\ [][QueueNext]_vars

\* ------------------------------------------ a worker whose request hangs
\* A generateContent call of worker i never resolves nor rejects: the worker
\* stays suspended at this await for ever.
ScoreHangs(i) ==
    /\ pc[i] = "score"
    /\ pc' = [pc EXCEPT ![i] = "hung"]
    /\ UNCHANGED <<files, isProcessing, agents, mounted, idx, retries, delay, attempts, waits,
                   outcome, faults>>
    /\ UNCHANGED Kept
    /\ UNCHANGED distVars

\* As BatchInit, with an API key (without one no request is made).
HungInit ==
    \/ Uploaded(BatchFiles, <<OldScan>>)
    \/ \E late \in LateSets : Late(LateFiles, late, TRUE, MaxFaultyItems)

HungNext ==
    \/ BatchNext
    \/ \E i \in AgentIds : ScoreHangs(i)

HungSpec == HungInit /\ [][HungNext]_vars

\* ------------------------------------------------------- pipeline claims
HasFile(fs, id) == \E p \in 1 .. Len(fs) : fs[p].id = id
FileOf(fs, id) ==
    IF HasFile(fs, id) THEN fs[CHOOSE p \in 1 .. Len(fs) : fs[p].id = id]
    ELSE [id |-> id, name |-> 0, blob |-> FALSE, status |-> "absent", result |-> <<>>]
Terminal(f) == f.status \in {"completed", "error"}
IsErrorResult(res) == /\ Len(res) = 1
                      /\ res[1].matchStatus = FALSE
                      /\ res[1].reason # ""
Launched(i) == batches[i] # <<>>
RunEnded == ~isProcessing /\ runs > 0
PartitionIds(i) == { batches[i][k].id : k \in 1 .. Len(batches[i]) }
Running(i) == pc[i] \in {"extract", "pace", "score", "backoff", "hung"}
\* Every processBatch call of the batch has returned.
AllReturned == runs > 0 /\ \A i \in AgentIds : pc[i] \in {"none", "done"}
\* Since Deploy was clicked the user has not signed out and no scan has been
\* loaded from the history (a load leaves plain objects in files).
Undisturbed ==
    /\ user = "u"
    /\ jdText = "jd"
    /\ \A p \in 1 .. Len(files) : files[p].blob
\* The positions of the items of partition i that worker i has finished.
Finished(i) == 1 .. (IF pc[i] = "done" THEN Len(batches[i]) ELSE idx[i])

\* C4: once every processBatch call of a batch has returned (every
\* extraction and every Scorer call has returned, the user has neither signed
\* out nor loaded a scan), every launched worker's AgentState is completed
\* and the batch has ended.
C4_Completion ==
    (AllReturned /\ Undisturbed) =>
        /\ ~isProcessing
        /\ \A i \in AgentIds : Launched(i) => agents[i].status = "completed"

\* C5: at the end of a run in which the user has neither signed out nor
\* loaded a scan, for a document X whose every Scorer request failed: X
\* carries an error result, every other document of X's partition has status
\* completed, and the worker has processed every item after X.
C5_FailureIsolation ==
    (AllReturned /\ Undisturbed /\ mounted) =>
      \A i \in AgentIds : \A x \in 1 .. Len(batches[i]) :
         outcome[batches[i][x].id] \in {"quota", "score"} =>
            /\ IsErrorResult(FileOf(files, batches[i][x].id).result)
            /\ idx[i] = Len(batches[i])
            /\ \A y \in 1 .. Len(batches[i]) :
                  y # x => FileOf(files, batches[i][y].id).status = "completed"

\* C6: for one item a worker issues at most 1 + MaxRetries requests and
\* starts at most MaxRetries backoff waits; a rate-limit failure before the
\* bound is always retried, and the one at the bound ends the requests of the
\* item with the synthetic error result (which is written to the item if the
\* page is still mounted and still holds the item).
C6_RetryBound ==
    /\ [](\A i \in AgentIds : attempts[i] <= 1 + MaxRetries /\ waits[i] <= MaxRetries)
    /\ [][\A i \in AgentIds :
            (pc[i] = "score" /\ pc'[i] # "score" /\ ScoreFail(i, "quota")) =>
               IF attempts[i] < 1 + MaxRetries
               THEN /\ pc'[i] = "backoff"
                    /\ waits'[i] = waits[i] + 1
                    /\ attempts'[i] = attempts[i]
                    /\ files' = files /\ agents' = agents
               ELSE /\ waits[i] = MaxRetries
                    /\ pc'[i] \notin {"backoff", "score"}
                    /\ attempts'[i] = 0
                    /\ outcome'[CurItem(i).id] = "quota"
                    /\ (mounted /\ HasFile(files, CurItem(i).id)) =>
                          /\ FileOf(files', CurItem(i).id).status = "completed"
                          /\ FileOf(files', CurItem(i).id).result = <<SynthResult>>]_vars

C6_Witness ==
    \E i \in AgentIds :
        /\ pc[i] = "done"
        /\ Len(batches[i]) = 2
        /\ outcome[batches[i][1].id] = "quota"
        /\ outcome[batches[i][2].id] = "quota"
        /\ FileOf(files, batches[i][2].id).result = <<SynthResult>>

\* C7: isProcessing goes back to false only in a step after which every
\* launched worker has returned with its AgentState completed, and while
\* isProcessing is false no worker is suspended inside processBatch.
C7_BarrierJoin ==
    /\ [][(isProcessing /\ ~isProcessing') =>
             \A i \in AgentIds : Launched(i) =>
                 (pc'[i] = "done" /\ agents'[i].status = "completed")]_vars
    /\ [](~isProcessing => \A i \in AgentIds : pc[i] \in {"none", "done"})

C7_Witness ==
    /\ RunEnded
    /\ Len(batches[0]) = 2
    /\ Cardinality({i \in AgentIds : Launched(i)}) = AgentCount
    /\ \A i \in AgentIds : pc[i] = "done" /\ agents[i].status = "completed"
    /\ \E i \in AgentIds : outcome[batches[i][1].id] = "extract"

\* C8: while the user has neither signed out nor loaded a scan, a worker
\* that has gone on to item k+1 of its partition (it has set it to
\* processing and started its extraction) has left item k with a terminal
\* recorded status, and at most one item of a partition is processing.
C8_PartitionOrder ==
    Undisturbed =>
      \A i \in AgentIds :
         /\ \A k \in 1 .. idx[i] :
               k < Len(batches[i]) => Terminal(FileOf(files, batches[i][k].id))
         /\ Cardinality({k \in 1 .. Len(batches[i]) :
                            FileOf(files, batches[i][k].id).status = "processing"}) <= 1

C11_SuccessfulRun ==
    (/\ AllReturned /\ Undisturbed /\ mounted
     /\ \A p \in 1 .. Len(files) :
           outcome[files[p].id] \in {"yes", "no", "malformed", "illyes", "illno"}) =>
        /\ \A p \in 1 .. Len(files) : files[p].status = "completed"
        /\ \A i \in AgentIds : Launched(i) =>
              /\ agents[i].processedCount = agents[i].totalAssigned
              /\ agents[i].totalAssigned = Len(batches[i])

\* C12: when the request that follows two rate-limit failures of an item is
\* answered, exactly 3 requests and 2 backoff waits were made for the item
\* and (the page being mounted and still holding the item) the item becomes
\* completed.
C12_ThirdAttemptSucceeds ==
    [][\A i \in AgentIds :
          (/\ waits[i] = 2
           /\ pc[i] = "score" /\ pc'[i] # "score"
           /\ mounted /\ HasFile(files, CurItem(i).id)
           /\ \/ \E b \in BOOLEAN : ScoreOk(i, b)
              \/ \E b \in BOOLEAN : ScoreIllTyped(i, b)
              \/ ScoreMalformed(i)) =>
             /\ attempts[i] = 3
             /\ FileOf(files', CurItem(i).id).status = "completed"]_vars

C14_EmptyPartition ==
    \A i \in AgentIds :
       (isProcessing /\ batches[i] = <<>>) =>
          /\ pc[i] = "none"
          /\ agents[i].status = "completed"
          /\ agents[i].progress = Num(100)
          /\ agents[i].totalAssigned = 0

\* C15: with no document in the queue (a user logged in, a job description
\* given, no batch running) a batch can be started, and the start leaves all
\* five AgentStates completed with progress = 100 and launches no worker.
C15_ZeroDocuments ==
    (mounted /\ user # "none" /\ ~isProcessing /\ files = <<>> /\ jdText = "jd") =>
        ENABLED (/\ \E key \in BOOLEAN : startAnalysis(key)
                 /\ runs' = runs + 1
                 /\ \A i \in AgentIds :
                       /\ agents'[i].status = "completed"
                       /\ agents'[i].progress = Num(100)
                       /\ pc'[i] = "none")

\* C16: a step of worker i (a step other than the start of the batch that
\* moves the position pc[i] or idx[i] of processBatch(i, ...)) changes no
\* AgentState but the one with id i and no file but those of partition i, in
\* every interleaving; the partitions have no file in common.
C16_DisjointWrites ==
    /\ [][\A i \in AgentIds :
            (runs' = runs /\ (pc'[i] # pc[i] \/ idx'[i] # idx[i])) =>
               /\ \A k \in AgentIds \ {i} : agents'[k] = agents[k]
               /\ Len(files') = Len(files)
               /\ \A p \in 1 .. Len(files) :
                     files[p].id \notin PartitionIds(i) => files'[p] = files[p]]_vars
    /\ [](\A i, k \in AgentIds : i # k => PartitionIds(i) \cap PartitionIds(k) = {})

C16_Witness ==
    \E i \in AgentIds \ {0} :
        /\ Len(batches[0]) = 2
        /\ idx[0] = 1
        /\ pc[0] = "backoff"
        /\ FileOf(files, batches[0][1].id).status = "completed"
        /\ FileOf(files, batches[0][2].id).status = "processing"
        /\ pc[i] = "done"
        /\ outcome[batches[i][1].id] = "extract"
        /\ FileOf(files, batches[i][1].id).status = "error"
        /\ agents[i].status = "completed"

\* C18: a worker is suspended inside processBatch only while isProcessing is
\* true, also after a logout and a login, and a batch is started only when
\* no worker of an earlier batch is still running: no agent slot ever has
\* two processBatch calls.
C18_SingleRun ==
    /\ [](\A i \in AgentIds : Running(i) => isProcessing)
    /\ [][runs' # runs => \A i \in AgentIds : ~Running(i)]_vars

C18_Witness ==
    /\ isProcessing
    /\ user = "u"
    /\ runs = 2
    /\ Len(files) = 2
    /\ Running(0) /\ Running(1)

\* C17: startAnalysis called while an AgentState or a file is not at its
\* initial value launches no worker and changes nothing but the alert.
C17_RestartReported ==
    [][(/\ \E key \in BOOLEAN : startAnalysis(key)
        /\ \/ \E i \in AgentIds : agents[i] # InitAgent(i)
           \/ \E p \in 1 .. Len(files) : files[p].status # "pending")
          => /\ ~isProcessing'
             /\ pc' = pc
             /\ agents' = agents
             /\ files' = files
             /\ alert' # ""]_vars

\* C19: the step in which an extraction fails gives the item the terminal
\* status a failed Scorer call gives (completed) and updates the worker's
\* processedCount and progress as that does.
C19_ExtractionLikeScorer ==
    [][\A i \in AgentIds :
          ExtractFail(i) =>
             /\ FileOf(files', CurItem(i).id).status = "completed"
             /\ agents'[i].processedCount = agents[i].processedCount + 1
             /\ agents'[i].progress
                   = Percent(agents[i].processedCount + 1, agents[i].totalAssigned)]_vars

\* C20: a worker that has returned from a non-empty partition has
\* processedCount = totalAssigned and progress = 100 (every item that became
\* terminal was counted once).
C20_CountsEveryTerminal ==
    \A i \in AgentIds :
       (Launched(i) /\ pc[i] = "done" /\ agents[i].status = "completed") =>
          /\ agents[i].processedCount = agents[i].totalAssigned
          /\ agents[i].progress = Num(100)

\* C21: in a first batch during which the user has neither signed out nor
\* loaded a scan, candidatesFound of a worker equals the number of its
\* finished items for which the Scorer returned matchStatus = true.
Positives(i) == { k \in Finished(i) : outcome[batches[i][k].id] \in {"yes", "illyes"} }

C22_StatusMoves ==
    [][\A p \in 1 .. Len(files) : \A q \in 1 .. Len(files') :
          (/\ files[p].blob /\ files'[q].blob
           /\ files'[q].id = files[p].id
           /\ files'[q].status # files[p].status) =>
              \/ files[p].status = "pending" /\ files'[q].status = "processing"
              \/ files[p].status = "processing" /\ Terminal(files'[q])]_vars

\* C23: the first request for an item is issued when the pacing timer of
\* PaceDelay ms fires, that timer is started when the item's extraction has
\* resolved, every later request follows a backoff timer, and an item whose
\* request has been issued is never paced again.
C23_Pacing ==
    [][\A i \in AgentIds :
          /\ attempts'[i] > attempts[i] =>
                /\ pc[i] \in {"pace", "backoff"}
                /\ pc'[i] = "score"
                /\ attempts[i] = 0 => (pc[i] = "pace" /\ Timer(i) = PaceDelay)
          /\ (pc'[i] = "pace" /\ pc[i] # "pace") =>
                (pc[i] = "extract" /\ idx'[i] = idx[i] /\ attempts[i] = 0)
          /\ (pc[i] \in {"score", "backoff"} /\ idx'[i] = idx[i]) =>
                pc'[i] \in {"score", "backoff"}]_vars

C23_Witness ==
    \E i \in AgentIds \ {0} :
        /\ Len(batches[0]) = 2
        /\ idx[0] = 1
        /\ pc[0] = "score"
        /\ attempts[0] = 1
        /\ pc[i] = "pace"
        /\ Timer(i) = PaceDelay
        /\ ~mounted

\* C24: the k-th backoff wait of an item lasts BaseDelay * 2^(k-1) ms (2000,
\* 4000, 8000), and the first request of every item starts from BaseDelay.
C24_Backoff ==
    \A i \in AgentIds :
       /\ pc[i] = "backoff" =>
             /\ waits[i] \in 1 .. MaxRetries
             /\ Timer(i) = BaseDelay * 2 ^ (waits[i] - 1)
             /\ Timer(i) \in {2000, 4000, 8000}
       /\ (pc[i] = "score" /\ attempts[i] = 1) => delay[i] = BaseDelay

C24_Witness ==
    \E i \in AgentIds :
        /\ Len(batches[i]) = 2
        /\ idx[i] = 1
        /\ outcome[batches[i][1].id] = "quota"
        /\ pc[i] = "backoff"
        /\ waits[i] = 1
        /\ Timer(i) = 2000

\* C25: while the request of a worker hangs and the user has neither signed
\* out nor loaded a scan, the batch stays unfinished and every other worker
\* that has returned from its partition has processed all its items and has
\* its AgentState completed.
C25_HungWorker ==
    \A i \in AgentIds :
       (pc[i] = "hung" /\ Undisturbed) =>
          /\ isProcessing
          /\ \A k \in AgentIds \ {i} :
                (Launched(k) /\ pc[k] = "done") =>
                   /\ idx[k] = Len(batches[k])
                   /\ agents[k].status = "completed"

\* C26: for every agent, progress is 100 * processedCount / totalAssigned
\* when totalAssigned > 0 and 0 when totalAssigned = 0.
C26_ProgressFunction ==
    \A i \in AgentIds :
       agents[i].progress =
          IF agents[i].totalAssigned > 0
          THEN Percent(agents[i].processedCount, agents[i].totalAssigned)
          ELSE Num(0)

\* C27: reset is executed only in a state where no worker is suspended
\* inside processBatch (before the first batch or after a batch has ended);
\* no step taken while a worker is running puts the agents back to their
\* initial values, and no agent is idle during a run.
C27_ResetOutsideRun ==
    /\ [][reset => (\A i \in AgentIds : ~Running(i)) /\ (runs = 0 \/ RunEnded)]_vars
    /\ [][(agents' # agents /\ agents' = [i \in AgentIds |-> InitAgent(i)]) =>
             \A i \in AgentIds : ~Running(i)]_vars
    /\ [](isProcessing => \A i \in AgentIds : agents[i].status # "idle")

C27_Witness ==
    /\ runs = 1
    /\ user = "u"
    /\ ~isProcessing
    /\ files = <<>>
    /\ jdText = ""
    /\ \A i \in AgentIds : agents[i] = InitAgent(i)
    /\ Len(batches[0]) = 1
    /\ Len(batches[1]) = 1
    /\ pc[0] = "done"

\* C28: while a batch runs, a step that changes files or agents is a step of
\* one of the workers.
C28_OnlyWorkersWrite ==
    [][(isProcessing /\ isProcessing' /\ (files' # files \/ agents' # agents)) =>
          \E i \in AgentIds : WorkerStep(i)]_vars

\* C29: candidatesFound of an agent never exceeds its processedCount.
C29_FoundAtMostProcessed ==
    \A i \in AgentIds : agents[i].candidatesFound <= agents[i].processedCount

\* C30: no two entries of the upload queue have the same name and size.
C30_NoDuplicateFiles ==
    \A p, q \in 1 .. Len(files) : p # q => files[p].name # files[q].name

\* C9: while a batch runs, under any interleaving of the worker steps with
\* the user actions, no agent's processedCount decreases in a step and none
\* exceeds its totalAssigned.
C9_ProgressMonotone ==
    /\ [][(isProcessing /\ isProcessing') =>
             \A i \in AgentIds : agents'[i].processedCount >= agents[i].processedCount]_vars
    /\ [](isProcessing =>
             \A i \in AgentIds : agents[i].processedCount <= agents[i].totalAssigned)

====
